---- MODULE Spec2Model ----
(***************************************************************************)
(* Model of the waste-collection backend: the four Prisma tables (cliente, *)
(* vehiculo, trabajador, servicioRecogida), the service functions that     *)
(* write them (clienteService, vehiculoService, trabajadorService,         *)
(* servicioRecogidaService) and the API handlers that call them.           *)
(*                                                                         *)
(* A service function runs up to its next await of the store in one step.  *)
(* The functions of the entities and eliminarServicioRecogida await the    *)
(* store once: one step each. crearServicioRecogida awaits it four times   *)
(* and actualizarServicioRecogida five times: one step per await, and the  *)
(* steps of the calls in progress and the other operations interleave in   *)
(* any order, since the handlers take no lock and open no transaction.     *)
(*                                                                         *)
(* Decimal values (Prisma.Decimal) are exact; they are represented by the  *)
(* integer number of thousandths (15 m3 is 15000, a rate of 2.005 is 2005).*)
(* A product of two decimals is therefore a number of millionths, and a    *)
(* cost rounded to two decimal places is a number of hundredths (82.50 is  *)
(* 8250). The volumes a caller gives are finite numbers with at most three *)
(* decimals, which new Prisma.Decimal and toNumber carry over unchanged.   *)
(*                                                                         *)
(* The services throw plain Error objects; the model names each message by *)
(* the kind the specification gives it:                                    *)
(*   ValidationError        'El volumen recogido debe ser un valor         *)
(*                           positivo.' and the other "debe ser un valor   *)
(*                           positivo" messages (the field is named), and  *)
(*                           'Ya existe un vehiculo con esta matricula.'   *)
(*                           (field "matricula": the unique plate is       *)
(*                           taken)                                        *)
(*   NotFoundError          '<Entidad> con ID <id> no encontrado.'         *)
(*   CapacityExceededError  'El volumen recogido (<v> m3) excede la        *)
(*                           capacidad maxima del vehiculo (<c> m3).'      *)
(*   PersistenceError       'No se pudo ...' (the catch around the write)  *)
(*   StoreError             the error of the store itself (for instance    *)
(*                           'connection lost'), which a lookup that is    *)
(*                           outside every try/catch lets through as it is *)
(***************************************************************************)
EXTENDS Integers, FiniteSets, TLC

\* cliente, vehiculo, trabajador, servicioRecogida: the tables, id -> row
\* siguienteId: the next id each table issues
\* llamadas: the calls of crearServicioRecogida and actualizarServicioRecogida
\*           in progress, each with its position and what it has read so far
\* resultado: the outcome of the call that has just ended, which the handler
\*            is answering with, or SinRespuesta
\* peticiones: the number of requests received
VARIABLES cliente, vehiculo, trabajador, servicioRecogida, siguienteId, llamadas,
          resultado, peticiones

vars ==
  <<cliente, vehiculo, trabajador, servicioRecogida, siguienteId, llamadas,
    resultado, peticiones>>

tablas == <<cliente, vehiculo, trabajador, servicioRecogida>>

(* ------------------------------ bounds -------------------------------- *)

\* Requests received in one behaviour.
MaxPeticiones == 2

\* Fields that one partial update of a servicioRecogida gives.
MaxCampos == 2

(* ------------------------------ inputs -------------------------------- *)

\* An optional field of a data object: absent (undefined) or given.
Undefined == [definido |-> FALSE, valor |-> 0]
Dado(v) == [definido |-> TRUE, valor |-> v]
Opcional(S) == {Undefined} \cup {Dado(v) : v \in S}

\* x ?? y
Coalesce(x, y) == IF x.definido THEN x.valor ELSE y

\* tarifa_por_m3 given to crearCliente/actualizarCliente: 0, 2.005, 5.50
TarifasEntrada == {0, 2005, 5500}

\* matricula given to crearVehiculo/actualizarVehiculo
Matriculas == {"AAA", "BBB"}

\* capacidad_max_m3 given to crearVehiculo/actualizarVehiculo: 0, 5, 20
CapacidadesEntrada == {0, 5000, 20000}

\* consumo_combustible_litros: 0, 8
ConsumosEntrada == {0, 8000}

\* salario_base: 0, 900
SalariosEntrada == {0, 900000}

\* volumen_recogido_m3: -1, 0, 5, 15, 25
VolumenesEntrada == {-1000, 0, 5000, 15000, 25000}

Fechas == {1, 2}

\* Identifiers a caller may name: the ids the table has issued (of rows that
\* exist or were deleted), and the next id of the table, which names no row.
IdsCliente == 1..siguienteId.cliente
IdsVehiculo == 1..siguienteId.vehiculo
IdsTrabajador == 1..siguienteId.trabajador
IdsServicioRecogida == 1..siguienteId.servicioRecogida

\* Identifiers given inside the data of a service call: those of the rows that
\* exist, and the next id of the table, which names no row yet.
RefsCliente == DOMAIN cliente \cup {siguienteId.cliente}
RefsVehiculo == DOMAIN vehiculo \cup {siguienteId.vehiculo}
RefsTrabajador == DOMAIN trabajador \cup {siguienteId.trabajador}

(* --------------------------- Prisma.Decimal --------------------------- *)

Abs(x) == IF x < 0 THEN -x ELSE x

\* new Prisma.Decimal(n) of a JS number: the decimal of the number's shortest
\* decimal representation; a number of thousandths is kept as it is.
NewDecimal(n) == n

\* Decimal.toNumber(), for the volumes of the model (at most 15 significant
\* digits, which a double holds exactly enough to print back).
ToNumber(d) == d

\* Decimal.greaterThanOrEqualTo
GreaterThanOIgual(a, b) == a >= b
\* Decimal.greaterThan
GreaterThan(a, b) == a > b

\* Decimal.times of two numbers of thousandths: a number of millionths.
Times(a, b) == a * b

\* The millionths in one hundredth.
MillonesimasPorCentesima == 10000

\* Decimal.toDecimalPlaces(2, ROUND_HALF_EVEN): to the nearest, a tie to the
\* even hundredth.
ToDecimalPlaces2HalfEven(m) ==
  LET a == Abs(m)
      q == a \div MillonesimasPorCentesima
      r == a % MillonesimasPorCentesima
      c == IF 2 * r > MillonesimasPorCentesima
              \/ (2 * r = MillonesimasPorCentesima /\ q % 2 = 1)
           THEN q + 1 ELSE q
  IN  IF m < 0 THEN -c ELSE c
\* Decimal.toDecimalPlaces(2, ROUND_HALF_UP) of a number of millionths, as a
\* number of hundredths: to the nearest, a tie away from zero.
ToDecimalPlaces2HalfUp(m) ==
  LET a == Abs(m)
      q == a \div MillonesimasPorCentesima
      r == a % MillonesimasPorCentesima
      c == IF 2 * r >= MillonesimasPorCentesima THEN q + 1 ELSE q
  IN  IF m < 0 THEN -c ELSE c


(* ------------------------------ results ------------------------------- *)

Ninguno == "ninguno"

Res(op, error, entidad, id, volumen, limite) ==
  [op |-> op, error |-> error, entidad |-> entidad, id |-> id,
   volumen |-> volumen, limite |-> limite]

Exito(op, id) == Res(op, Ninguno, "", id, 0, 0)
ValidationError(op, campo) == Res(op, "ValidationError", campo, 0, 0, 0)
\* A not-found report that names the identifier alone.
NotFoundErrorSinEntidad(op, entidad, id) == Res(op, "NotFoundError", "", id, 0, 0)
NotFoundError(op, entidad, id) == Res(op, "NotFoundError", entidad, id, 0, 0)
CapacityExceededError(op, volumen, limite) ==
  Res(op, "CapacityExceededError", "", 0, volumen, limite)
PersistenceError(op) == Res(op, "PersistenceError", "", 0, 0, 0)
StoreError(op) == Res(op, "StoreError", "", 0, 0, 0)

\* No call has just ended: no response is being sent.
SinRespuesta == Res("", Ninguno, "", 0, 0, 0)

(* ------------------------------- store -------------------------------- *)

Insertar(tabla, id, fila) ==
  [i \in DOMAIN tabla \cup {id} |-> IF i = id THEN fila ELSE tabla[i]]

Borrar(tabla, id) == [i \in DOMAIN tabla \ {id} |-> tabla[i]]

\* The autoincrement of a table's id column.
Avanzar(tabla) == [siguienteId EXCEPT ![tabla] = @ + 1]

\* A row of cliente, vehiculo or trabajador that a servicioRecogida refers to
\* cannot be deleted (the foreign keys of the required relations).
Referenciado(campo, id) ==
  \E s \in DOMAIN servicioRecogida : servicioRecogida[s][campo] = id

\* A row of servicioRecogida can be written only while the rows it refers to
\* exist (the same foreign keys, seen from the write).
ReferenciasVivas(fila) ==
  /\ fila.clienteId \in DOMAIN cliente
  /\ fila.vehiculoId \in DOMAIN vehiculo
  /\ fila.trabajadorId \in DOMAIN trabajador

\* The plate is that of a vehicle other than id (the unique index on
\* vehiculo.matricula).
MatriculaTomada(matricula, id) ==
  \E v \in DOMAIN vehiculo \ {id} : vehiculo[v].matricula = matricula

(* ------------------------------- calls -------------------------------- *)

\* The calls of crearServicioRecogida and actualizarServicioRecogida that can
\* be in progress at once.
Procesos == {"a", "b"}

\* data of actualizarServicioRecogida with no field given.
SinDatos ==
  [clienteId |-> Undefined, vehiculoId |-> Undefined, trabajadorId |-> Undefined,
   fecha |-> Undefined, volumen_recogido_m3 |-> Undefined]

\* The local variables of a call before it has read anything.
FilaNula ==
  [clienteId |-> 0, vehiculoId |-> 0, trabajadorId |-> 0, fecha |-> 0,
   volumen_recogido_m3 |-> 0, costo_servicio |-> 0]

\* A call of op at position pc: the arguments id and data, the row read by
\* actualizarServicioRecogida (servicioExistente) and the rate of the client
\* read (cliente.tarifa_por_m3).
LlamadaEn(pc, op, id, data, servicioExistente, tarifa_por_m3) ==
  [pc |-> pc, op |-> op, id |-> id, data |-> data,
   servicioExistente |-> servicioExistente, tarifa_por_m3 |-> tarifa_por_m3]

\* No call is in progress in the slot.
Ociosa == LlamadaEn("ociosa", "", 0, SinDatos, FilaNula, 0)

\* The response of the call that ended last has been sent. Sending it reads
\* and writes no table, so it commutes with every request of the store; the
\* model takes it right after the step that ends the call.
Enviada == resultado = SinRespuesta

\* One more request may be received within the bound.
HayTurno == peticiones < MaxPeticiones

(* --------------------------- initial stores --------------------------- *)

\* Clients at 5.50 and 2.005, vehicles of 20 m3 and 5 m3, a worker, and a
\* record of 5 or 15 m3 created for client 1, vehicle 1 and worker 1.
Cliente1 == (1 :> NewDecimal(5500))
Cliente2 == (2 :> NewDecimal(2005))
Vehiculo1 ==
  (1 :> [matricula |-> "AAA", capacidad_max_m3 |-> NewDecimal(20000),
         consumo_combustible_litros |-> NewDecimal(8000)])
Vehiculo2 ==
  (2 :> [matricula |-> "BBB", capacidad_max_m3 |-> NewDecimal(5000),
         consumo_combustible_litros |-> NewDecimal(8000)])
Trabajador1 == (1 :> 900000)

\* The stores a behaviour starts from: the empty one and stores that creates
\* have filled.
ClientesIniciales == {<< >>, Cliente1, Cliente1 @@ Cliente2}
VehiculosIniciales == {<< >>, Vehiculo1, Vehiculo1 @@ Vehiculo2}
TrabajadoresIniciales == {<< >>, Trabajador1}
VolumenesIniciales == {5000, 15000}

(* --------------------------- clienteService --------------------------- *)

\* A write that the store may refuse: either the catch around it reports the
\* failure and nothing changes, or the write happens.

CrearCliente(tarifa_por_m3) ==
  IF tarifa_por_m3 <= 0
  THEN /\ resultado' = ValidationError("crearCliente", "tarifa_por_m3")
       /\ UNCHANGED <<tablas, siguienteId>>
  ELSE \/ /\ resultado' = PersistenceError("crearCliente")
          /\ UNCHANGED <<tablas, siguienteId>>
       \/ /\ cliente' = Insertar(cliente, siguienteId.cliente, NewDecimal(tarifa_por_m3))
          /\ siguienteId' = Avanzar("cliente")
          /\ resultado' = Exito("crearCliente", siguienteId.cliente)
          /\ UNCHANGED <<vehiculo, trabajador, servicioRecogida>>

\* data.tarifa_por_m3 is optional (the other fields are not modelled).
ActualizarCliente(id, tarifa_por_m3) ==
  IF tarifa_por_m3.definido /\ tarifa_por_m3.valor <= 0
  THEN /\ resultado' = ValidationError("actualizarCliente", "tarifa_por_m3")
       /\ UNCHANGED <<tablas, siguienteId>>
  ELSE \/ /\ resultado' = PersistenceError("actualizarCliente")
          /\ UNCHANGED <<tablas, siguienteId>>
       \/ /\ id \in DOMAIN cliente
          /\ cliente' = [cliente EXCEPT ![id] =
               IF tarifa_por_m3.definido THEN NewDecimal(tarifa_por_m3.valor) ELSE @]
          /\ resultado' = Exito("actualizarCliente", id)
          /\ UNCHANGED <<vehiculo, trabajador, servicioRecogida, siguienteId>>

EliminarCliente(id) ==
  \/ /\ resultado' = PersistenceError("eliminarCliente")
     /\ UNCHANGED <<tablas, siguienteId>>
  \/ /\ id \in DOMAIN cliente
     /\ ~Referenciado("clienteId", id)
     /\ cliente' = Borrar(cliente, id)
     /\ resultado' = Exito("eliminarCliente", id)
     /\ UNCHANGED <<vehiculo, trabajador, servicioRecogida, siguienteId>>

(* --------------------------- vehiculoService -------------------------- *)

\* The catch around the create tells the plate that is taken (P2002 on
\* matricula) from every other failure of the store.
CrearVehiculo(matricula, capacidad_max_m3, consumo_combustible_litros) ==
  IF capacidad_max_m3 <= 0
  THEN /\ resultado' = ValidationError("crearVehiculo", "capacidad_max_m3")
       /\ UNCHANGED <<tablas, siguienteId>>
  ELSE IF consumo_combustible_litros <= 0
  THEN /\ resultado' = ValidationError("crearVehiculo", "consumo_combustible_litros")
       /\ UNCHANGED <<tablas, siguienteId>>
  ELSE \/ /\ resultado' = PersistenceError("crearVehiculo")
          /\ UNCHANGED <<tablas, siguienteId>>
       \/ IF MatriculaTomada(matricula, 0)
          THEN /\ resultado' = ValidationError("crearVehiculo", "matricula")
               /\ UNCHANGED <<tablas, siguienteId>>
          ELSE /\ vehiculo' = Insertar(vehiculo, siguienteId.vehiculo,
                                [matricula |-> matricula,
                                 capacidad_max_m3 |-> NewDecimal(capacidad_max_m3),
                                 consumo_combustible_litros |->
                                   NewDecimal(consumo_combustible_litros)])
               /\ siguienteId' = Avanzar("vehiculo")
               /\ resultado' = Exito("crearVehiculo", siguienteId.vehiculo)
               /\ UNCHANGED <<cliente, trabajador, servicioRecogida>>

\* The row of a vehicle after an update: the fields given replace the stored
\* ones.
VehiculoActualizado(fila, matricula, capacidad_max_m3, consumo_combustible_litros) ==
  [matricula |-> Coalesce(matricula, fila.matricula),
   capacidad_max_m3 |->
     IF capacidad_max_m3.definido
     THEN NewDecimal(capacidad_max_m3.valor) ELSE fila.capacidad_max_m3,
   consumo_combustible_litros |->
     IF consumo_combustible_litros.definido
     THEN NewDecimal(consumo_combustible_litros.valor)
     ELSE fila.consumo_combustible_litros]

\* An update of a vehicle that checks the capacity alone.
ActualizarVehiculoSinConsumo(id, matricula, capacidad_max_m3, consumo_combustible_litros) ==
  IF capacidad_max_m3.definido /\ capacidad_max_m3.valor <= 0
  THEN /\ resultado' = ValidationError("actualizarVehiculo", "capacidad_max_m3")
       /\ UNCHANGED <<tablas, siguienteId>>
  ELSE \/ /\ resultado' = PersistenceError("actualizarVehiculo")
          /\ UNCHANGED <<tablas, siguienteId>>
       \/ /\ id \in DOMAIN vehiculo
          /\ IF matricula.definido /\ MatriculaTomada(matricula.valor, id)
             THEN /\ resultado' = ValidationError("actualizarVehiculo", "matricula")
                  /\ UNCHANGED <<tablas, siguienteId>>
             ELSE /\ vehiculo' = [vehiculo EXCEPT ![id] =
                       VehiculoActualizado(@, matricula, capacidad_max_m3,
                                           consumo_combustible_litros)]
                  /\ resultado' = Exito("actualizarVehiculo", id)
                  /\ UNCHANGED <<cliente, trabajador, servicioRecogida, siguienteId>>

\* data.matricula, data.capacidad_max_m3 and data.consumo_combustible_litros
\* are optional. The update of an id without row fails in the catch as any
\* other failure of the store does.
ActualizarVehiculo(id, matricula, capacidad_max_m3, consumo_combustible_litros) ==
  IF capacidad_max_m3.definido /\ capacidad_max_m3.valor <= 0
  THEN /\ resultado' = ValidationError("actualizarVehiculo", "capacidad_max_m3")
       /\ UNCHANGED <<tablas, siguienteId>>
  ELSE IF consumo_combustible_litros.definido /\ consumo_combustible_litros.valor <= 0
  THEN /\ resultado' = ValidationError("actualizarVehiculo", "consumo_combustible_litros")
       /\ UNCHANGED <<tablas, siguienteId>>
  ELSE \/ /\ resultado' = PersistenceError("actualizarVehiculo")
          /\ UNCHANGED <<tablas, siguienteId>>
       \/ /\ id \in DOMAIN vehiculo
          /\ IF matricula.definido /\ MatriculaTomada(matricula.valor, id)
             THEN /\ resultado' = ValidationError("actualizarVehiculo", "matricula")
                  /\ UNCHANGED <<tablas, siguienteId>>
             ELSE /\ vehiculo' = [vehiculo EXCEPT ![id] =
                       VehiculoActualizado(@, matricula, capacidad_max_m3,
                                           consumo_combustible_litros)]
                  /\ resultado' = Exito("actualizarVehiculo", id)
                  /\ UNCHANGED <<cliente, trabajador, servicioRecogida, siguienteId>>

EliminarVehiculo(id) ==
  \/ /\ resultado' = PersistenceError("eliminarVehiculo")
     /\ UNCHANGED <<tablas, siguienteId>>
  \/ /\ id \in DOMAIN vehiculo
     /\ ~Referenciado("vehiculoId", id)
     /\ vehiculo' = Borrar(vehiculo, id)
     /\ resultado' = Exito("eliminarVehiculo", id)
     /\ UNCHANGED <<cliente, trabajador, servicioRecogida, siguienteId>>

(* -------------------------- trabajadorService ------------------------- *)

CrearTrabajador(salario_base) ==
  IF salario_base <= 0
  THEN /\ resultado' = ValidationError("crearTrabajador", "salario_base")
       /\ UNCHANGED <<tablas, siguienteId>>
  ELSE \/ /\ resultado' = PersistenceError("crearTrabajador")
          /\ UNCHANGED <<tablas, siguienteId>>
       \/ /\ trabajador' = Insertar(trabajador, siguienteId.trabajador, salario_base)
          /\ siguienteId' = Avanzar("trabajador")
          /\ resultado' = Exito("crearTrabajador", siguienteId.trabajador)
          /\ UNCHANGED <<cliente, vehiculo, servicioRecogida>>

ActualizarTrabajador(id, salario_base) ==
  IF salario_base.definido /\ salario_base.valor <= 0
  THEN /\ resultado' = ValidationError("actualizarTrabajador", "salario_base")
       /\ UNCHANGED <<tablas, siguienteId>>
  ELSE \/ /\ resultado' = PersistenceError("actualizarTrabajador")
          /\ UNCHANGED <<tablas, siguienteId>>
       \/ /\ id \in DOMAIN trabajador
          /\ trabajador' = [trabajador EXCEPT ![id] =
               IF salario_base.definido THEN salario_base.valor ELSE @]
          /\ resultado' = Exito("actualizarTrabajador", id)
          /\ UNCHANGED <<cliente, vehiculo, servicioRecogida, siguienteId>>

EliminarTrabajador(id) ==
  \/ /\ resultado' = PersistenceError("eliminarTrabajador")
     /\ UNCHANGED <<tablas, siguienteId>>
  \/ /\ id \in DOMAIN trabajador
     /\ ~Referenciado("trabajadorId", id)
     /\ trabajador' = Borrar(trabajador, id)
     /\ resultado' = Exito("eliminarTrabajador", id)
     /\ UNCHANGED <<cliente, vehiculo, servicioRecogida, siguienteId>>

(* ----------------------- servicioRecogidaService ---------------------- *)

\* data of crearServicioRecogida
CreateServicioRecogidaData ==
  [clienteId : RefsCliente, vehiculoId : RefsVehiculo,
   trabajadorId : RefsTrabajador, fecha : Fechas,
   volumen_recogido_m3 : VolumenesEntrada]

\* The number of fields an update gives.
Uno(campo) == IF campo.definido THEN 1 ELSE 0
CamposDados(data) ==
  Uno(data.clienteId) + Uno(data.vehiculoId) + Uno(data.trabajadorId)
  + Uno(data.fecha) + Uno(data.volumen_recogido_m3)

\* data of actualizarServicioRecogida: every field optional
UpdateServicioRecogidaData ==
  {data \in [clienteId : Opcional(RefsCliente), vehiculoId : Opcional(RefsVehiculo),
             trabajadorId : Opcional(RefsTrabajador), fecha : Opcional(Fechas),
             volumen_recogido_m3 : Opcional(VolumenesEntrada)] :
     CamposDados(data) <= MaxCampos}

\* volumen < 0
VolumenNegativo(volumen) == volumen < 0
\* volumen <= 0
VolumenNoPositivo(volumen) == volumen <= 0

\* The product cut to two decimal places instead of rounded.
CostoServicioTruncado(volumenRecogidoDecimal, tarifa_por_m3) ==
  Times(volumenRecogidoDecimal, tarifa_por_m3) \div MillonesimasPorCentesima
\* volumenRecogidoDecimal.times(cliente.tarifa_por_m3).toDecimalPlaces(2, ROUND_HALF_UP)
CostoServicio(volumenRecogidoDecimal, tarifa_por_m3) ==
  ToDecimalPlaces2HalfUp(Times(volumenRecogidoDecimal, tarifa_por_m3))

\* The call ll in slot p ends: it returns or throws res, which the handler
\* answers with.
Termina(p, ll, res) ==
  /\ llamadas' = [llamadas EXCEPT ![p] = [ll EXCEPT !.pc = "hecho"]]
  /\ resultado' = res

\* The call in slot p goes on to its next await as ll.
Sigue(p, ll) ==
  /\ llamadas' = [llamadas EXCEPT ![p] = ll]
  /\ UNCHANGED resultado

(* crearServicioRecogida *)

\* The data of a create as the call in progress holds it (every field given),
\* and back.
TodosDados(data) ==
  [campo \in {"clienteId", "vehiculoId", "trabajadorId", "fecha",
              "volumen_recogido_m3"} |-> Dado(data[campo])]
DatosDe(ll) ==
  [campo \in {"clienteId", "vehiculoId", "trabajadorId", "fecha",
              "volumen_recogido_m3"} |-> ll.data[campo].valor]

\* crearServicioRecogida that looks the vehicle up before it checks the volume.
CrearServicioRecogidaVehiculoAntes(p, data) ==
  LET op == "crearServicioRecogida"
      ll == LlamadaEn("leerCliente", op, 0, TodosDados(data), FilaNula, 0)
      volumenRecogidoDecimal == NewDecimal(data.volumen_recogido_m3)
  IN  /\ llamadas[p].pc = "ociosa"
      /\ UNCHANGED <<tablas, siguienteId>>
      /\ \/ Termina(p, ll, StoreError(op))
         \/ IF data.vehiculoId \notin DOMAIN vehiculo
            THEN Termina(p, ll, NotFoundError(op, "Vehiculo", data.vehiculoId))
            ELSE IF VolumenNoPositivo(data.volumen_recogido_m3)
            THEN Termina(p, ll, ValidationError(op, "volumen_recogido_m3"))
            ELSE IF GreaterThan(volumenRecogidoDecimal,
                                vehiculo[data.vehiculoId].capacidad_max_m3)
            THEN Termina(p, ll, CapacityExceededError(op, data.volumen_recogido_m3,
                              vehiculo[data.vehiculoId].capacidad_max_m3))
            ELSE Sigue(p, ll)

\* The call up to the answer of its first await: the check of the volume,
\* await prisma.vehiculo.findUnique, and the check of the capacity. Nothing
\* is read or written before the first await, so the model takes the
\* reception of the call together with the lookup.
CrearServicioRecogida(p, data) ==
  LET op == "crearServicioRecogida"
      ll == LlamadaEn("leerCliente", op, 0, TodosDados(data), FilaNula, 0)
      volumenRecogidoDecimal == NewDecimal(data.volumen_recogido_m3)
  IN  /\ llamadas[p].pc = "ociosa"
      /\ UNCHANGED <<tablas, siguienteId>>
      /\ IF VolumenNoPositivo(data.volumen_recogido_m3)
         THEN Termina(p, ll, ValidationError(op, "volumen_recogido_m3"))
         ELSE \/ Termina(p, ll, StoreError(op))
              \/ IF data.vehiculoId \notin DOMAIN vehiculo
                 THEN Termina(p, ll, NotFoundError(op, "Vehiculo", data.vehiculoId))
                 ELSE IF GreaterThan(volumenRecogidoDecimal,
                                     vehiculo[data.vehiculoId].capacidad_max_m3)
                 THEN Termina(p, ll, CapacityExceededError(op, data.volumen_recogido_m3,
                                   vehiculo[data.vehiculoId].capacidad_max_m3))
                 ELSE Sigue(p, ll)

\* await prisma.cliente.findUnique
CrearLeerCliente(p) ==
  LET ll == llamadas[p]
      data == DatosDe(ll)
  IN  /\ ll.op = "crearServicioRecogida"
      /\ ll.pc = "leerCliente"
      /\ UNCHANGED <<tablas, siguienteId>>
      /\ \/ Termina(p, ll, StoreError(ll.op))
         \/ IF data.clienteId \notin DOMAIN cliente
            THEN Termina(p, ll, NotFoundError(ll.op, "Cliente", data.clienteId))
            ELSE Sigue(p, [ll EXCEPT !.pc = "leerTrabajador",
                                     !.tarifa_por_m3 = cliente[data.clienteId]])

\* The lookup of the worker with the row written before the worker is known
\* to exist.
CrearLeerTrabajadorEscribeAntes(p) ==
  LET ll == llamadas[p]
      data == DatosDe(ll)
  IN  /\ ll.op = "crearServicioRecogida"
      /\ ll.pc = "leerTrabajador"
      /\ \/ /\ Termina(p, ll, StoreError(ll.op))
            /\ UNCHANGED <<tablas, siguienteId>>
         \/ IF data.trabajadorId \notin DOMAIN trabajador
            THEN /\ servicioRecogida' =
                      Insertar(servicioRecogida, siguienteId.servicioRecogida,
                               [clienteId |-> data.clienteId,
                                vehiculoId |-> data.vehiculoId,
                                trabajadorId |-> data.trabajadorId,
                                fecha |-> data.fecha,
                                volumen_recogido_m3 |-> data.volumen_recogido_m3,
                                costo_servicio |-> 0])
                 /\ siguienteId' = Avanzar("servicioRecogida")
                 /\ Termina(p, ll, NotFoundError(ll.op, "Trabajador", data.trabajadorId))
                 /\ UNCHANGED <<cliente, vehiculo, trabajador>>
            ELSE /\ Sigue(p, [ll EXCEPT !.pc = "escribir"])
                 /\ UNCHANGED <<tablas, siguienteId>>

\* await prisma.trabajador.findUnique
CrearLeerTrabajador(p) ==
  LET ll == llamadas[p]
      data == DatosDe(ll)
  IN  /\ ll.op = "crearServicioRecogida"
      /\ ll.pc = "leerTrabajador"
      /\ UNCHANGED <<tablas, siguienteId>>
      /\ \/ Termina(p, ll, StoreError(ll.op))
         \/ IF data.trabajadorId \notin DOMAIN trabajador
            THEN Termina(p, ll, NotFoundError(ll.op, "Trabajador", data.trabajadorId))
            ELSE Sigue(p, [ll EXCEPT !.pc = "escribir"])

\* The row that prisma.servicioRecogida.create is given: the cost is computed
\* from the rate of the client as the call read it.
NuevoServicio(data, tarifa_por_m3) ==
  LET volumenRecogidoDecimal == NewDecimal(data.volumen_recogido_m3)
  IN  [clienteId |-> data.clienteId,
       vehiculoId |-> data.vehiculoId,
       trabajadorId |-> data.trabajadorId,
       fecha |-> data.fecha,
       volumen_recogido_m3 |-> volumenRecogidoDecimal,
       costo_servicio |-> CostoServicio(volumenRecogidoDecimal, tarifa_por_m3)]

\* await prisma.servicioRecogida.create, inside the try/catch
CrearEscribir(p) ==
  LET ll == llamadas[p]
      fila == NuevoServicio(DatosDe(ll), ll.tarifa_por_m3)
  IN  /\ ll.op = "crearServicioRecogida"
      /\ ll.pc = "escribir"
      /\ \/ /\ Termina(p, ll, PersistenceError(ll.op))
            /\ UNCHANGED <<tablas, siguienteId>>
         \/ /\ ReferenciasVivas(fila)
            /\ servicioRecogida' =
                 Insertar(servicioRecogida, siguienteId.servicioRecogida, fila)
            /\ siguienteId' = Avanzar("servicioRecogida")
            /\ Termina(p, ll, Exito(ll.op, siguienteId.servicioRecogida))
            /\ UNCHANGED <<cliente, vehiculo, trabajador>>

(* actualizarServicioRecogida *)

\* The merge with the vehicle of the existing row kept whatever is given.
FinalVehiculoGuardado(servicioExistente, data) ==
  [clienteId |-> Coalesce(data.clienteId, servicioExistente.clienteId),
   vehiculoId |-> servicioExistente.vehiculoId,
   trabajadorId |-> Coalesce(data.trabajadorId, servicioExistente.trabajadorId),
   volumen |-> Coalesce(data.volumen_recogido_m3,
                        ToNumber(servicioExistente.volumen_recogido_m3))]

\* finalClienteId, finalVehiculoId, finalTrabajadorId, finalVolumenRecogido:
\* the given value, or the one of the existing row.
Final(servicioExistente, data) ==
  [clienteId |-> Coalesce(data.clienteId, servicioExistente.clienteId),
   vehiculoId |-> Coalesce(data.vehiculoId, servicioExistente.vehiculoId),
   trabajadorId |-> Coalesce(data.trabajadorId, servicioExistente.trabajadorId),
   volumen |-> Coalesce(data.volumen_recogido_m3,
                        ToNumber(servicioExistente.volumen_recogido_m3))]

\* actualizarServicioRecogida that validates a given volume before it looks
\* the record up.
ActualizarServicioRecogidaValidaAntes(p, id, data) ==
  LET op == "actualizarServicioRecogida"
      ll == LlamadaEn("leerVehiculo", op, id, data,
                      IF id \in DOMAIN servicioRecogida
                      THEN servicioRecogida[id] ELSE FilaNula, 0)
  IN  /\ llamadas[p].pc = "ociosa"
      /\ UNCHANGED <<tablas, siguienteId>>
      /\ IF data.volumen_recogido_m3.definido
            /\ VolumenNoPositivo(data.volumen_recogido_m3.valor)
         THEN Termina(p, ll, ValidationError(op, "volumen_recogido_m3"))
         ELSE \/ Termina(p, ll, StoreError(op))
              \/ IF id \notin DOMAIN servicioRecogida
                 THEN Termina(p, ll, NotFoundError(op, "Servicio de recogida", id))
                 ELSE IF VolumenNoPositivo(Final(servicioRecogida[id], data).volumen)
                 THEN Termina(p, ll, ValidationError(op, "volumen_recogido_m3"))
                 ELSE Sigue(p, ll)

\* The call up to the answer of its first await:
\* await prisma.servicioRecogida.findUnique, the merge and the check of the
\* volume.
ActualizarServicioRecogida(p, id, data) ==
  LET op == "actualizarServicioRecogida"
      ll == LlamadaEn("leerVehiculo", op, id, data,
                      IF id \in DOMAIN servicioRecogida
                      THEN servicioRecogida[id] ELSE FilaNula, 0)
  IN  /\ llamadas[p].pc = "ociosa"
      /\ UNCHANGED <<tablas, siguienteId>>
      /\ \/ Termina(p, ll, StoreError(op))
         \/ IF id \notin DOMAIN servicioRecogida
            THEN Termina(p, ll, NotFoundError(op, "Servicio de recogida", id))
            ELSE IF VolumenNoPositivo(Final(servicioRecogida[id], data).volumen)
            THEN Termina(p, ll, ValidationError(op, "volumen_recogido_m3"))
            ELSE Sigue(p, ll)

\* await prisma.vehiculo.findUnique and the check of the capacity
LeerVehiculo(p) ==
  LET ll == llamadas[p]
      final == Final(ll.servicioExistente, ll.data)
      volumenRecogidoDecimal == NewDecimal(final.volumen)
  IN  /\ ll.op = "actualizarServicioRecogida"
      /\ ll.pc = "leerVehiculo"
      /\ UNCHANGED <<tablas, siguienteId>>
      /\ \/ Termina(p, ll, StoreError(ll.op))
         \/ IF final.vehiculoId \notin DOMAIN vehiculo
            THEN Termina(p, ll, NotFoundError(ll.op, "Vehiculo", final.vehiculoId))
            ELSE IF GreaterThan(volumenRecogidoDecimal,
                                vehiculo[final.vehiculoId].capacidad_max_m3)
            THEN Termina(p, ll, CapacityExceededError(ll.op, final.volumen,
                              vehiculo[final.vehiculoId].capacidad_max_m3))
            ELSE Sigue(p, [ll EXCEPT !.pc = "leerCliente"])

\* await prisma.cliente.findUnique
LeerCliente(p) ==
  LET ll == llamadas[p]
      final == Final(ll.servicioExistente, ll.data)
  IN  /\ ll.op = "actualizarServicioRecogida"
      /\ ll.pc = "leerCliente"
      /\ UNCHANGED <<tablas, siguienteId>>
      /\ \/ Termina(p, ll, StoreError(ll.op))
         \/ IF final.clienteId \notin DOMAIN cliente
            THEN Termina(p, ll, NotFoundError(ll.op, "Cliente", final.clienteId))
            ELSE Sigue(p, [ll EXCEPT !.pc = "leerTrabajador",
                                     !.tarifa_por_m3 = cliente[final.clienteId]])

\* await prisma.trabajador.findUnique
LeerTrabajador(p) ==
  LET ll == llamadas[p]
      final == Final(ll.servicioExistente, ll.data)
  IN  /\ ll.op = "actualizarServicioRecogida"
      /\ ll.pc = "leerTrabajador"
      /\ UNCHANGED <<tablas, siguienteId>>
      /\ \/ Termina(p, ll, StoreError(ll.op))
         \/ IF final.trabajadorId \notin DOMAIN trabajador
            THEN Termina(p, ll, NotFoundError(ll.op, "Trabajador", final.trabajadorId))
            ELSE Sigue(p, [ll EXCEPT !.pc = "escribir"])

\* An update that writes fecha always: the one given, or none.
FilaEscritaFechaSiempre(ll, fila) ==
  LET final == Final(ll.servicioExistente, ll.data)
      volumenRecogidoDecimal == NewDecimal(final.volumen)
  IN  [clienteId |-> final.clienteId,
       vehiculoId |-> final.vehiculoId,
       trabajadorId |-> final.trabajadorId,
       fecha |-> ll.data.fecha.valor,
       volumen_recogido_m3 |-> volumenRecogidoDecimal,
       costo_servicio |-> CostoServicio(volumenRecogidoDecimal, ll.tarifa_por_m3)]

\* An update that derives the cost only when the volume or the client is
\* given.
FilaEscritaCostoSiCambia(ll, fila) ==
  LET final == Final(ll.servicioExistente, ll.data)
      volumenRecogidoDecimal == NewDecimal(final.volumen)
  IN  [clienteId |-> final.clienteId,
       vehiculoId |-> final.vehiculoId,
       trabajadorId |-> final.trabajadorId,
       fecha |-> Coalesce(ll.data.fecha, fila.fecha),
       volumen_recogido_m3 |-> volumenRecogidoDecimal,
       costo_servicio |->
         IF ll.data.volumen_recogido_m3.definido \/ ll.data.clienteId.definido
         THEN CostoServicio(volumenRecogidoDecimal, ll.tarifa_por_m3)
         ELSE fila.costo_servicio]

\* An update that writes the fields given alone, over the row as it is at the
\* moment of the write.
FilaEscritaSoloDados(ll, fila) ==
  [clienteId |-> Coalesce(ll.data.clienteId, fila.clienteId),
   vehiculoId |-> Coalesce(ll.data.vehiculoId, fila.vehiculoId),
   trabajadorId |-> Coalesce(ll.data.trabajadorId, fila.trabajadorId),
   fecha |-> Coalesce(ll.data.fecha, fila.fecha),
   volumen_recogido_m3 |->
     NewDecimal(Coalesce(ll.data.volumen_recogido_m3, fila.volumen_recogido_m3)),
   costo_servicio |->
     CostoServicio(
       NewDecimal(Coalesce(ll.data.volumen_recogido_m3, fila.volumen_recogido_m3)),
       ll.tarifa_por_m3)]

\* The row after prisma.servicioRecogida.update of the call ll on the row
\* fila: the merged values of the call and the cost computed from the rate the
\* call read; fecha is written only when given, else the row keeps its own.
FilaEscrita(ll, fila) ==
  LET final == Final(ll.servicioExistente, ll.data)
      volumenRecogidoDecimal == NewDecimal(final.volumen)
  IN  [clienteId |-> final.clienteId,
       vehiculoId |-> final.vehiculoId,
       trabajadorId |-> final.trabajadorId,
       fecha |-> Coalesce(ll.data.fecha, fila.fecha),
       volumen_recogido_m3 |-> volumenRecogidoDecimal,
       costo_servicio |-> CostoServicio(volumenRecogidoDecimal, ll.tarifa_por_m3)]

\* An update that compares the volume with the capacity the vehicle has at
\* the moment of the write, and throws when it no longer fits.
EscribirSiCabe(p) ==
  LET ll == llamadas[p]
      final == Final(ll.servicioExistente, ll.data)
  IN  /\ ll.op = "actualizarServicioRecogida"
      /\ ll.pc = "escribir"
      /\ \/ /\ Termina(p, ll, PersistenceError(ll.op))
            /\ UNCHANGED <<tablas, siguienteId>>
         \/ /\ ll.id \in DOMAIN servicioRecogida
            /\ ReferenciasVivas(final)
            /\ IF GreaterThan(NewDecimal(final.volumen),
                              vehiculo[final.vehiculoId].capacidad_max_m3)
               THEN /\ Termina(p, ll, CapacityExceededError(ll.op, final.volumen,
                                    vehiculo[final.vehiculoId].capacidad_max_m3))
                    /\ UNCHANGED <<tablas, siguienteId>>
               ELSE /\ servicioRecogida' =
                         [servicioRecogida EXCEPT ![ll.id] = FilaEscrita(ll, @)]
                    /\ Termina(p, ll, Exito(ll.op, ll.id))
                    /\ UNCHANGED <<cliente, vehiculo, trabajador, siguienteId>>

\* await prisma.servicioRecogida.update, inside the try/catch. The update of
\* a record deleted meanwhile, or to a row deleted meanwhile, fails in the
\* catch as any other failure of the store does.
Escribir(p) ==
  LET ll == llamadas[p]
      final == Final(ll.servicioExistente, ll.data)
  IN  /\ ll.op = "actualizarServicioRecogida"
      /\ ll.pc = "escribir"
      /\ \/ /\ Termina(p, ll, PersistenceError(ll.op))
            /\ UNCHANGED <<tablas, siguienteId>>
         \/ /\ ll.id \in DOMAIN servicioRecogida
            /\ ReferenciasVivas(final)
            /\ servicioRecogida' =
                 [servicioRecogida EXCEPT ![ll.id] = FilaEscrita(ll, @)]
            /\ Termina(p, ll, Exito(ll.op, ll.id))
            /\ UNCHANGED <<cliente, vehiculo, trabajador, siguienteId>>

\* A delete that answers with success whether the row exists or not.
EliminarServicioRecogidaSiExiste(id) ==
  \/ /\ resultado' = PersistenceError("eliminarServicioRecogida")
     /\ UNCHANGED <<tablas, siguienteId>>
  \/ /\ servicioRecogida' = Borrar(servicioRecogida, id)
     /\ resultado' = Exito("eliminarServicioRecogida", id)
     /\ UNCHANGED <<cliente, vehiculo, trabajador, siguienteId>>

EliminarServicioRecogida(id) ==
  \/ /\ resultado' = PersistenceError("eliminarServicioRecogida")
     /\ UNCHANGED <<tablas, siguienteId>>
  \/ /\ id \in DOMAIN servicioRecogida
     /\ servicioRecogida' = Borrar(servicioRecogida, id)
     /\ resultado' = Exito("eliminarServicioRecogida", id)
     /\ UNCHANGED <<cliente, vehiculo, trabajador, siguienteId>>

(* ------------------------------ handlers ------------------------------ *)

\* The status of the response the API handler sends for the outcome of a
\* call: every error caught is answered with 500, a create that returns with
\* 201, an update or delete that returns with 200.
StatusCode(res) ==
  IF res.error # Ninguno THEN 500
  ELSE IF res.op \in {"crearCliente", "crearVehiculo", "crearTrabajador",
                      "crearServicioRecogida"}
  THEN 201
  ELSE 200

\* The API handler sends the response of the call that has ended, which
\* leaves its slot. The calls in progress stay in progress.
Responder ==
  /\ ~Enviada
  /\ resultado' = SinRespuesta
  /\ llamadas' = [p \in Procesos |->
                    IF llamadas[p].pc = "hecho" THEN Ociosa ELSE llamadas[p]]
  /\ UNCHANGED <<tablas, siguienteId, peticiones>>

(* ---------------------------- specification --------------------------- *)

\* A store that creates have filled, with no call in progress.
ServiciosIniciales ==
  {<< >>}
  \cup {(1 :> NuevoServicio([clienteId |-> 1, vehiculoId |-> 1, trabajadorId |-> 1,
                             fecha |-> 1, volumen_recogido_m3 |-> volumen],
                            Cliente1[1])) : volumen \in VolumenesIniciales}

Init ==
  /\ cliente \in ClientesIniciales
  /\ vehiculo \in VehiculosIniciales
  /\ trabajador \in TrabajadoresIniciales
  /\ servicioRecogida \in
       (IF 1 \in DOMAIN cliente /\ 1 \in DOMAIN vehiculo /\ 1 \in DOMAIN trabajador
        THEN ServiciosIniciales ELSE {<< >>})
  /\ siguienteId = [cliente |-> Cardinality(DOMAIN cliente) + 1,
                    vehiculo |-> Cardinality(DOMAIN vehiculo) + 1,
                    trabajador |-> Cardinality(DOMAIN trabajador) + 1,
                    servicioRecogida |-> Cardinality(DOMAIN servicioRecogida) + 1]
  /\ llamadas = [p \in Procesos |-> Ociosa]
  /\ resultado = SinRespuesta
  /\ peticiones = 0

\* A request is received: the handler calls the service function.
Recibir ==
  /\ Enviada
  /\ HayTurno
  /\ peticiones' = peticiones + 1

\* The slot a call received takes: the first that is free.
Huecos ==
  IF llamadas["a"].pc = "ociosa" THEN {"a"}
  ELSE {p \in Procesos : llamadas[p].pc = "ociosa"}

\* The requests. The functions that await the store once run in one step,
\* whatever calls are in progress.
Llamada ==
  \/ /\ Recibir
     /\ UNCHANGED llamadas
     /\ \E t \in TarifasEntrada : CrearCliente(t)
  \/ /\ Recibir
     /\ UNCHANGED llamadas
     /\ \E id \in IdsCliente, t \in Opcional(TarifasEntrada) :
            ActualizarCliente(id, t)
  \/ /\ Recibir
     /\ UNCHANGED llamadas
     /\ \E id \in IdsCliente : EliminarCliente(id)
  \/ /\ Recibir
     /\ UNCHANGED llamadas
     /\ \E m \in Matriculas, c \in CapacidadesEntrada, k \in ConsumosEntrada :
            CrearVehiculo(m, c, k)
  \/ /\ Recibir
     /\ UNCHANGED llamadas
     /\ \E id \in IdsVehiculo, m \in Opcional(Matriculas),
             c \in Opcional(CapacidadesEntrada), k \in Opcional(ConsumosEntrada) :
            ActualizarVehiculo(id, m, c, k)
  \/ /\ Recibir
     /\ UNCHANGED llamadas
     /\ \E id \in IdsVehiculo : EliminarVehiculo(id)
  \/ /\ Recibir
     /\ UNCHANGED llamadas
     /\ \E s \in SalariosEntrada : CrearTrabajador(s)
  \/ /\ Recibir
     /\ UNCHANGED llamadas
     /\ \E id \in IdsTrabajador, s \in Opcional(SalariosEntrada) :
            ActualizarTrabajador(id, s)
  \/ /\ Recibir
     /\ UNCHANGED llamadas
     /\ \E id \in IdsTrabajador : EliminarTrabajador(id)
  \/ /\ Recibir
     /\ \E p \in Huecos, data \in CreateServicioRecogidaData :
            CrearServicioRecogida(p, data)
  \/ /\ Recibir
     /\ \E p \in Huecos, id \in IdsServicioRecogida,
             data \in UpdateServicioRecogidaData :
            ActualizarServicioRecogida(p, id, data)
  \/ /\ Recibir
     /\ UNCHANGED llamadas
     /\ \E id \in IdsServicioRecogida : EliminarServicioRecogida(id)

\* The store answers an await of a call in progress.
Paso ==
  \/ /\ Enviada
     /\ UNCHANGED peticiones
     /\ \E p \in Procesos : CrearLeerCliente(p)
  \/ /\ Enviada
     /\ UNCHANGED peticiones
     /\ \E p \in Procesos : CrearLeerTrabajador(p)
  \/ /\ Enviada
     /\ UNCHANGED peticiones
     /\ \E p \in Procesos : CrearEscribir(p)
  \/ /\ Enviada
     /\ UNCHANGED peticiones
     /\ \E p \in Procesos : LeerVehiculo(p)
  \/ /\ Enviada
     /\ UNCHANGED peticiones
     /\ \E p \in Procesos : LeerCliente(p)
  \/ /\ Enviada
     /\ UNCHANGED peticiones
     /\ \E p \in Procesos : LeerTrabajador(p)
  \/ /\ Enviada
     /\ UNCHANGED peticiones
     /\ \E p \in Procesos : Escribir(p)

Next ==
  \/ Llamada
  \/ Paso
  \/ Responder

Spec == Init /\ [][Next]_vars

(* -------------- actualizarServicioRecogida and no other --------------- *)

\* The requests are updates of records alone: no client, vehicle or worker
\* is written, and no record is created or deleted.
NextConcurrente ==
  \/ /\ Recibir
     /\ \E p \in Huecos, id \in IdsServicioRecogida,
             data \in UpdateServicioRecogidaData :
            ActualizarServicioRecogida(p, id, data)
  \/ /\ Enviada
     /\ UNCHANGED peticiones
     /\ \E p \in Procesos : LeerVehiculo(p)
  \/ /\ Enviada
     /\ UNCHANGED peticiones
     /\ \E p \in Procesos : LeerCliente(p)
  \/ /\ Enviada
     /\ UNCHANGED peticiones
     /\ \E p \in Procesos : LeerTrabajador(p)
  \/ /\ Enviada
     /\ UNCHANGED peticiones
     /\ \E p \in Procesos : Escribir(p)
  \/ Responder

SpecConcurrente == Init /\ [][NextConcurrente]_vars

(* ------------------------------- claims ------------------------------- *)

\* A number of millionths, not negative, rounded half up to hundredths: the
\* hundredth c with c - 1/2 <= m < c + 1/2.
RedondeoMedioArriba(m) ==
  CHOOSE c \in (m \div 10000)..(m \div 10000 + 1) :
    /\ 2 * 10000 * c - 10000 <= 2 * m
    /\ 2 * m < 2 * 10000 * c + 10000

\* round_half_up(volume x rate, 2 decimals), in hundredths
CostoEsperado(volumen, tarifa) == RedondeoMedioArriba(volumen * tarifa)

\* The value an update works with: the one given, or the stored one.
Efectivo(dado, guardado) == IF dado.definido THEN dado.valor ELSE guardado

OpCrear == "crearServicioRecogida"
OpActualizar == "actualizarServicioRecogida"

\* In this step the call of slot p is received and runs up to the answer of
\* its first lookup.
Empieza(p) == llamadas[p].pc = "ociosa" /\ llamadas'[p].pc # "ociosa"

\* In this step the call of slot p, waiting at pc, gets the answer of the
\* store and runs on.
Atiende(p, pc) == llamadas[p].pc = pc /\ llamadas'[p].pc # pc

\* In this step the write of the call of slot p is answered.
Escribe(p, op) ==
  /\ llamadas[p].op = op
  /\ llamadas[p].pc = "escribir"
  /\ llamadas'[p].pc = "hecho"

\* The outcome of the step for a volume and the capacity of the vehicle
\* looked up: the capacity error with both numbers when the volume is
\* greater, and no capacity error otherwise.
Excede(op, volumen, limite) ==
  IF volumen > limite
  THEN resultado' = CapacityExceededError(op, volumen, limite)
  ELSE resultado'.error # "CapacityExceededError"

\* C1: in every reachable state every persisted ServiceRecord has volume > 0
\* and volume <= the max-capacity of the Vehicle it references.
C1_VolumenDentroDeCapacidad ==
  \A s \in DOMAIN servicioRecogida :
    /\ servicioRecogida[s].volumen_recogido_m3 > 0
    /\ servicioRecogida[s].vehiculoId \in DOMAIN vehiculo
    /\ servicioRecogida[s].volumen_recogido_m3
         <= vehiculo[servicioRecogida[s].vehiculoId].capacidad_max_m3

\* C2 as stated: in every reachable state the stored cost of every
\* ServiceRecord is round_half_up(stored volume x the current rate of the
\* Client it references, 2).
C2_CostoConTarifaActual ==
  \A s \in DOMAIN servicioRecogida :
    /\ servicioRecogida[s].clienteId \in DOMAIN cliente
    /\ servicioRecogida[s].costo_servicio =
         CostoEsperado(servicioRecogida[s].volumen_recogido_m3,
                       cliente[servicioRecogida[s].clienteId])

\* C2 amended: the stored cost of a ServiceRecord is derived whenever the
\* record is written, from the rate that the writing call read: a call that
\* goes on after the lookup of its client holds the rate the client has at
\* that moment, and every step either leaves the row of a record as it was,
\* or is the write of a call and leaves the row with the client whose rate
\* the call read and with cost = round_half_up(its volume x that rate, 2).
\* A change of a client's rate touches no row.
C2_Paso ==
  /\ \A p \in Procesos :
       Atiende(p, "leerCliente") /\ llamadas'[p].pc = "leerTrabajador" =>
         LET c == Efectivo(llamadas[p].data.clienteId,
                           llamadas[p].servicioExistente.clienteId)
         IN  /\ c \in DOMAIN cliente
             /\ llamadas'[p].tarifa_por_m3 = cliente[c]
  /\ \A s \in DOMAIN servicioRecogida' :
       \/ /\ s \in DOMAIN servicioRecogida
          /\ servicioRecogida'[s] = servicioRecogida[s]
       \/ \E p \in Procesos :
            /\ llamadas[p].pc = "escribir"
            /\ llamadas'[p].pc = "hecho"
            /\ servicioRecogida'[s].clienteId =
                 Efectivo(llamadas[p].data.clienteId,
                          llamadas[p].servicioExistente.clienteId)
            /\ servicioRecogida'[s].costo_servicio =
                 CostoEsperado(servicioRecogida'[s].volumen_recogido_m3,
                               llamadas[p].tarifa_por_m3)
C2_CostoDerivadoAlEscribir == [][C2_Paso]_vars

\* A create has just written a record whose cost comes from the rate the call
\* read, while the client has another rate by now: the rate was changed
\* between the lookup and the write.
C2_Testigo ==
  /\ resultado.op = OpCrear
  /\ resultado.error = Ninguno
  /\ \E p \in Procesos :
       LET fila == servicioRecogida[resultado.id]
       IN  /\ llamadas[p].pc = "hecho"
           /\ llamadas[p].op = OpCrear
           /\ fila.costo_servicio =
                CostoEsperado(fila.volumen_recogido_m3, llamadas[p].tarifa_por_m3)
           /\ fila.costo_servicio #
                CostoEsperado(fila.volumen_recogido_m3, cliente[fila.clienteId])

\* C3: a volume greater than the capacity of the vehicle looked up makes
\* create and update fail with CapacityExceededError reporting the volume and
\* the limit (and a volume within the capacity does not), unless the lookup
\* itself fails; a call that ends so leaves the store as it was.
C3_Paso ==
  /\ \A p \in Procesos :
       Empieza(p) /\ llamadas'[p].op = OpCrear /\ resultado' # StoreError(OpCrear) =>
         LET volumen == llamadas'[p].data.volumen_recogido_m3.valor
             vehiculoId == llamadas'[p].data.vehiculoId.valor
         IN  volumen > 0 /\ vehiculoId \in DOMAIN vehiculo =>
               Excede(OpCrear, volumen, vehiculo[vehiculoId].capacidad_max_m3)
  /\ \A p \in Procesos :
       Atiende(p, "leerVehiculo") /\ resultado' # StoreError(OpActualizar) =>
         LET ll == llamadas[p]
             volumen == Efectivo(ll.data.volumen_recogido_m3,
                                 ll.servicioExistente.volumen_recogido_m3)
             vehiculoId == Efectivo(ll.data.vehiculoId,
                                    ll.servicioExistente.vehiculoId)
         IN  vehiculoId \in DOMAIN vehiculo =>
               Excede(OpActualizar, volumen, vehiculo[vehiculoId].capacidad_max_m3)
  /\ resultado'.error = "CapacityExceededError" => UNCHANGED <<tablas, siguienteId>>
C3_ExcesoDeCapacidad == [][C3_Paso]_vars

\* A create of 25 m3 on a vehicle of 20 m3 has failed, reporting 25 and 20,
\* while a record of 15 m3 on a vehicle of 20 m3 is stored.
C3_Testigo ==
  /\ resultado = CapacityExceededError(OpCrear, 25000, 20000)
  /\ \E s \in DOMAIN servicioRecogida :
       /\ servicioRecogida[s].volumen_recogido_m3 = 15000
       /\ vehiculo[servicioRecogida[s].vehiculoId].capacidad_max_m3 = 20000

\* C4: a volume <= 0 makes create fail with ValidationError before any
\* lookup, and so does an update of an existing record that gives it (0
\* included) once the record is read; a create or update that ends with
\* ValidationError creates and modifies nothing.
C4_Paso ==
  /\ \A p \in Procesos :
       Empieza(p) =>
         LET ll == llamadas'[p]
             volumen == ll.data.volumen_recogido_m3
         IN  /\ ll.op = OpCrear /\ volumen.valor <= 0 =>
                  resultado' = ValidationError(OpCrear, "volumen_recogido_m3")
             /\ ( /\ ll.op = OpActualizar
                  /\ ll.id \in DOMAIN servicioRecogida
                  /\ volumen.definido
                  /\ volumen.valor <= 0
                  /\ resultado' # StoreError(OpActualizar) ) =>
                  resultado' = ValidationError(OpActualizar, "volumen_recogido_m3")
  /\ resultado'.error = "ValidationError" /\ resultado'.op \in {OpCrear, OpActualizar}
       => UNCHANGED <<tablas, siguienteId>>
C4_VolumenNoPositivo == [][C4_Paso]_vars

\* An update that gave the volume 0 for a record that exists has been
\* rejected.
C4_Testigo ==
  /\ resultado = ValidationError(OpActualizar, "volumen_recogido_m3")
  /\ \E p \in Procesos :
       /\ llamadas[p].pc = "hecho"
       /\ llamadas[p].op = OpActualizar
       /\ llamadas[p].id \in DOMAIN servicioRecogida
       /\ llamadas[p].data.volumen_recogido_m3 = Dado(0)

\* C5: a create that succeeds writes one new record with the volume and the
\* client given and cost = round_half_up(volume x the rate read for that
\* client, 2 decimals): 15 m3 at 5.50 cost 82.50, and 5 m3 at 2.005 cost
\* 10.03. The data of the call has no cost: the caller cannot give one.
C5_Paso ==
  /\ \A p \in Procesos :
       ( /\ llamadas[p].op = OpCrear
         /\ Atiende(p, "leerCliente")
         /\ llamadas'[p].pc = "leerTrabajador" ) =>
         /\ llamadas[p].data.clienteId.valor \in DOMAIN cliente
         /\ llamadas'[p].tarifa_por_m3 = cliente[llamadas[p].data.clienteId.valor]
  /\ resultado'.op = OpCrear /\ resultado'.error = Ninguno =>
       \E p \in Procesos :
         LET ll == llamadas[p]
             volumen == ll.data.volumen_recogido_m3.valor
             nuevo == servicioRecogida'[resultado'.id]
         IN  /\ Escribe(p, OpCrear)
             /\ DOMAIN ll.data =
                  {"clienteId", "vehiculoId", "trabajadorId", "fecha",
                   "volumen_recogido_m3"}
             /\ resultado'.id \notin DOMAIN servicioRecogida
             /\ DOMAIN servicioRecogida' = DOMAIN servicioRecogida \cup {resultado'.id}
             /\ nuevo.volumen_recogido_m3 = volumen
             /\ nuevo.clienteId = ll.data.clienteId.valor
             /\ nuevo.costo_servicio = CostoEsperado(volumen, ll.tarifa_por_m3)
             /\ (volumen = 15000 /\ ll.tarifa_por_m3 = 5500 => nuevo.costo_servicio = 8250)
             /\ (volumen = 5000 /\ ll.tarifa_por_m3 = 2005 => nuevo.costo_servicio = 1003)
C5_CostoAlCrear == [][C5_Paso]_vars

\* A create of 5 m3 for a client at 2.005 has succeeded and the record costs
\* 10.03.
C5_Testigo ==
  /\ resultado.op = OpCrear
  /\ resultado.error = Ninguno
  /\ servicioRecogida[resultado.id].volumen_recogido_m3 = 5000
  /\ cliente[servicioRecogida[resultado.id].clienteId] = 2005
  /\ servicioRecogida[resultado.id].costo_servicio = 1003

\* C6: create checks in a fixed order and stops at the first failure: volume
\* > 0, then the vehicle exists, then the volume is within its capacity, then
\* the client exists, then the worker exists, then the write. A lookup that
\* the store fails ends the call at that point.
C6_Paso ==
  \A p \in Procesos :
    /\ Empieza(p) /\ llamadas'[p].op = OpCrear =>
         LET volumen == llamadas'[p].data.volumen_recogido_m3.valor
             vehiculoId == llamadas'[p].data.vehiculoId.valor
         IN  /\ volumen <= 0 =>
                  resultado' = ValidationError(OpCrear, "volumen_recogido_m3")
             /\ volumen > 0 /\ resultado' # StoreError(OpCrear) =>
                  IF vehiculoId \notin DOMAIN vehiculo
                  THEN resultado' = NotFoundError(OpCrear, "Vehiculo", vehiculoId)
                  ELSE IF volumen > vehiculo[vehiculoId].capacidad_max_m3
                  THEN resultado' =
                         CapacityExceededError(OpCrear, volumen,
                                               vehiculo[vehiculoId].capacidad_max_m3)
                  ELSE resultado' = SinRespuesta /\ llamadas'[p].pc = "leerCliente"
    /\ ( /\ llamadas[p].op = OpCrear
         /\ Atiende(p, "leerCliente")
         /\ resultado' # StoreError(OpCrear) ) =>
         IF llamadas[p].data.clienteId.valor \notin DOMAIN cliente
         THEN resultado' =
                NotFoundError(OpCrear, "Cliente", llamadas[p].data.clienteId.valor)
         ELSE resultado' = SinRespuesta /\ llamadas'[p].pc = "leerTrabajador"
    /\ ( /\ llamadas[p].op = OpCrear
         /\ Atiende(p, "leerTrabajador")
         /\ resultado' # StoreError(OpCrear) ) =>
         IF llamadas[p].data.trabajadorId.valor \notin DOMAIN trabajador
         THEN resultado' =
                NotFoundError(OpCrear, "Trabajador", llamadas[p].data.trabajadorId.valor)
         ELSE resultado' = SinRespuesta /\ llamadas'[p].pc = "escribir"
    /\ llamadas[p].op = OpCrear /\ Atiende(p, "escribir") =>
         /\ llamadas'[p].pc = "hecho"
         /\ resultado'.error \in {Ninguno, "PersistenceError"}
C6_OrdenDeComprobaciones == [][C6_Paso]_vars

\* A create whose volume exceeds the capacity of its vehicle, and whose
\* client and worker do not exist, has failed with the capacity error.
C6_Testigo ==
  /\ resultado.op = OpCrear
  /\ resultado.error = "CapacityExceededError"
  /\ \E p \in Procesos :
       /\ llamadas[p].pc = "hecho"
       /\ llamadas[p].op = OpCrear
       /\ llamadas[p].data.clienteId.valor \notin DOMAIN cliente
       /\ llamadas[p].data.trabajadorId.valor \notin DOMAIN trabajador

\* C7: an update validates the values it will write, not only the ones
\* given. The call holds the record as it read it; at the lookup of the
\* vehicle, (a) a vehicle given without a volume is checked with the volume
\* read against the capacity of the vehicle given, (b) a volume given without
\* a vehicle is checked against the capacity of the vehicle read, (c) with
\* neither given the volume read is checked again against the capacity that
\* the vehicle read has now.
C7_Paso ==
  \A p \in Procesos :
    /\ ( /\ Empieza(p)
         /\ llamadas'[p].op = OpActualizar
         /\ llamadas'[p].id \in DOMAIN servicioRecogida ) =>
         llamadas'[p].servicioExistente = servicioRecogida[llamadas'[p].id]
    /\ Atiende(p, "leerVehiculo") /\ resultado' # StoreError(OpActualizar) =>
         LET data == llamadas[p].data
             leido == llamadas[p].servicioExistente
             Comprueba(volumen, vehiculoId) ==
               vehiculoId \in DOMAIN vehiculo =>
                 Excede(OpActualizar, volumen, vehiculo[vehiculoId].capacidad_max_m3)
         IN  /\ data.vehiculoId.definido /\ ~data.volumen_recogido_m3.definido =>
                  Comprueba(leido.volumen_recogido_m3, data.vehiculoId.valor)
             /\ data.volumen_recogido_m3.definido /\ ~data.vehiculoId.definido =>
                  Comprueba(data.volumen_recogido_m3.valor, leido.vehiculoId)
             /\ ~data.vehiculoId.definido /\ ~data.volumen_recogido_m3.definido =>
                  Comprueba(leido.volumen_recogido_m3, leido.vehiculoId)
             /\ data.vehiculoId.definido /\ data.volumen_recogido_m3.definido =>
                  Comprueba(data.volumen_recogido_m3.valor, data.vehiculoId.valor)
C7_ValidaValoresEfectivos == [][C7_Paso]_vars

\* An update that gave only another vehicle has failed: the volume of the
\* record, which its own vehicle holds, exceeds the capacity of the vehicle
\* given.
C7_Testigo ==
  /\ resultado.op = OpActualizar
  /\ resultado.error = "CapacityExceededError"
  /\ \E p \in Procesos :
       LET ll == llamadas[p]
       IN  /\ ll.pc = "hecho"
           /\ ll.op = OpActualizar
           /\ ll.data.vehiculoId.definido
           /\ ~ll.data.volumen_recogido_m3.definido
           /\ ll.data.vehiculoId.valor # ll.servicioExistente.vehiculoId
           /\ resultado.volumen = ll.servicioExistente.volumen_recogido_m3
           /\ resultado.limite = vehiculo[ll.data.vehiculoId.valor].capacidad_max_m3
           /\ resultado.volumen
                <= vehiculo[ll.servicioExistente.vehiculoId].capacidad_max_m3

\* C8: every update that succeeds writes cost = round_half_up(the volume
\* written x the rate read for the client written, 2 decimals), whatever
\* fields were given: an update that gives the date alone after a change of
\* the client's rate leaves the cost at the new rate.
C8_Paso ==
  /\ \A p \in Procesos :
       ( /\ llamadas[p].op = OpActualizar
         /\ Atiende(p, "leerCliente")
         /\ llamadas'[p].pc = "leerTrabajador" ) =>
         LET clienteId == Efectivo(llamadas[p].data.clienteId,
                                   llamadas[p].servicioExistente.clienteId)
         IN  /\ clienteId \in DOMAIN cliente
             /\ llamadas'[p].tarifa_por_m3 = cliente[clienteId]
  /\ resultado'.op = OpActualizar /\ resultado'.error = Ninguno =>
       \E p \in Procesos :
         LET ll == llamadas[p]
             volumen == Efectivo(ll.data.volumen_recogido_m3,
                                 ll.servicioExistente.volumen_recogido_m3)
             clienteId == Efectivo(ll.data.clienteId, ll.servicioExistente.clienteId)
         IN  /\ Escribe(p, OpActualizar)
             /\ ll.id = resultado'.id
             /\ ll.id \in DOMAIN servicioRecogida'
             /\ servicioRecogida'[ll.id].volumen_recogido_m3 = volumen
             /\ servicioRecogida'[ll.id].clienteId = clienteId
             /\ servicioRecogida'[ll.id].costo_servicio =
                  CostoEsperado(volumen, ll.tarifa_por_m3)
C8_CostoAlActualizar == [][C8_Paso]_vars

\* The rate of client 1 was changed from 5.50 to 2.005, and an update of a
\* record of client 1 that gave the date alone has succeeded: the cost is the
\* one at 2.005, and no longer the one at 5.50.
C8_Testigo ==
  /\ resultado.op = OpActualizar
  /\ resultado.error = Ninguno
  /\ \E p \in Procesos :
       LET ll == llamadas[p]
           fila == servicioRecogida[ll.id]
       IN  /\ ll.pc = "hecho"
           /\ ll.op = OpActualizar
           /\ ll.id = resultado.id
           /\ ll.data.fecha.definido
           /\ CamposDados(ll.data) = 1
           /\ fila.clienteId = 1
           /\ cliente[1] = 2005
           /\ ll.servicioExistente.costo_servicio =
                CostoEsperado(fila.volumen_recogido_m3, 5500)
           /\ fila.costo_servicio = CostoEsperado(fila.volumen_recogido_m3, 2005)
           /\ fila.costo_servicio # ll.servicioExistente.costo_servicio

\* C9: an update of an identifier without record fails with NotFoundError
\* for the record as soon as the lookup of the record is answered, before the
\* merge and every validation (whatever the data, a volume <= 0 included),
\* and writes nothing; that error is given for no identifier with a record.
C9_Paso ==
  /\ \A p \in Procesos :
       ( /\ Empieza(p)
         /\ llamadas'[p].op = OpActualizar
         /\ llamadas'[p].id \notin DOMAIN servicioRecogida
         /\ resultado' # StoreError(OpActualizar) ) =>
         resultado' = NotFoundError(OpActualizar, "Servicio de recogida", llamadas'[p].id)
  /\ resultado'.op = OpActualizar /\ resultado'.entidad = "Servicio de recogida" =>
       /\ resultado'.error = "NotFoundError"
       /\ resultado'.id \notin DOMAIN servicioRecogida
       /\ UNCHANGED <<tablas, siguienteId>>
C9_ActualizarInexistente == [][C9_Paso]_vars

\* An update that gave a volume <= 0 for an identifier without record has
\* failed with NotFoundError for the record, while another record exists.
C9_Testigo ==
  /\ resultado.op = OpActualizar
  /\ resultado.error = "NotFoundError"
  /\ resultado.entidad = "Servicio de recogida"
  /\ servicioRecogida # << >>
  /\ \E p \in Procesos :
       /\ llamadas[p].pc = "hecho"
       /\ llamadas[p].op = OpActualizar
       /\ llamadas[p].data.volumen_recogido_m3.definido
       /\ llamadas[p].data.volumen_recogido_m3.valor <= 0

\* C10: a create or update writes once, as its last step, after its checks
\* have passed in order: every step of a call but the write leaves the store
\* as it was, a call that fails at any point (the write included) leaves it
\* as it was, and the write that succeeds changes one row of servicioRecogida
\* and nothing else.
C10_Paso ==
  /\ \A p \in Procesos :
       llamadas'[p] # llamadas[p] /\ llamadas'[p].pc # "ociosa" =>
         \/ UNCHANGED <<tablas, siguienteId>>
         \/ /\ llamadas[p].pc = "escribir"
            /\ llamadas'[p].pc = "hecho"
            /\ resultado' = Exito(llamadas[p].op, resultado'.id)
            /\ UNCHANGED <<cliente, vehiculo, trabajador>>
            /\ DOMAIN servicioRecogida' = DOMAIN servicioRecogida \cup {resultado'.id}
            /\ \A s \in DOMAIN servicioRecogida \ {resultado'.id} :
                 servicioRecogida'[s] = servicioRecogida[s]
  /\ resultado'.op \in {OpCrear, OpActualizar} =>
       IF resultado'.error = Ninguno
       THEN \E p \in Procesos : Escribe(p, resultado'.op)
       ELSE UNCHANGED <<tablas, siguienteId>>
  /\ \A p \in Procesos :
       LET ll == llamadas[p]
           sig == llamadas'[p]
           data == sig.data
           leido == sig.servicioExistente
           volumen == Efectivo(data.volumen_recogido_m3, leido.volumen_recogido_m3)
           vehiculoId == Efectivo(data.vehiculoId, leido.vehiculoId)
       IN  /\ sig.pc = "escribir" /\ ll.pc # "escribir" =>
                /\ ll.pc = "leerTrabajador"
                /\ Efectivo(data.trabajadorId, leido.trabajadorId) \in DOMAIN trabajador
           /\ sig.pc = "leerTrabajador" /\ ll.pc # "leerTrabajador" =>
                /\ ll.pc = "leerCliente"
                /\ Efectivo(data.clienteId, leido.clienteId) \in DOMAIN cliente
           /\ sig.pc = "leerCliente" /\ ll.pc # "leerCliente" =>
                /\ ll.pc = (IF sig.op = OpCrear THEN "ociosa" ELSE "leerVehiculo")
                /\ volumen > 0
                /\ vehiculoId \in DOMAIN vehiculo
                /\ volumen <= vehiculo[vehiculoId].capacidad_max_m3
           /\ sig.pc = "leerVehiculo" /\ ll.pc # "leerVehiculo" =>
                /\ ll.pc = "ociosa"
                /\ sig.op = OpActualizar
                /\ sig.id \in DOMAIN servicioRecogida
                /\ volumen > 0
C10_UnaEscrituraTrasLasComprobaciones == [][C10_Paso]_vars

\* A create has passed the checks of the volume, the vehicle, the capacity
\* and the client, and has failed at the worker: no record was written.
C10_Testigo ==
  /\ resultado.op = OpCrear
  /\ resultado.error = "NotFoundError"
  /\ resultado.entidad = "Trabajador"
  /\ cliente # << >>
  /\ vehiculo # << >>
  /\ servicioRecogida = << >>

\* C11: a create that names a vehicle, a client or a worker without row fails
\* at the lookup of that row with NotFoundError giving the kind of the entity
\* and the identifier, unless the lookup itself fails; the NotFoundError of a
\* create names a row that the data gave and that does not exist, and nothing
\* is written.
C11_Paso ==
  /\ \A p \in Procesos :
       LET data == llamadas'[p].data
       IN  /\ ( /\ Empieza(p)
                /\ llamadas'[p].op = OpCrear
                /\ data.volumen_recogido_m3.valor > 0
                /\ data.vehiculoId.valor \notin DOMAIN vehiculo
                /\ resultado' # StoreError(OpCrear) ) =>
                resultado' = NotFoundError(OpCrear, "Vehiculo", data.vehiculoId.valor)
           /\ ( /\ llamadas[p].op = OpCrear
                /\ Atiende(p, "leerCliente")
                /\ data.clienteId.valor \notin DOMAIN cliente
                /\ resultado' # StoreError(OpCrear) ) =>
                resultado' = NotFoundError(OpCrear, "Cliente", data.clienteId.valor)
           /\ ( /\ llamadas[p].op = OpCrear
                /\ Atiende(p, "leerTrabajador")
                /\ data.trabajadorId.valor \notin DOMAIN trabajador
                /\ resultado' # StoreError(OpCrear) ) =>
                resultado' = NotFoundError(OpCrear, "Trabajador", data.trabajadorId.valor)
  /\ resultado'.op = OpCrear /\ resultado'.error = "NotFoundError" =>
       /\ UNCHANGED <<tablas, siguienteId>>
       /\ \E p \in Procesos :
            LET data == llamadas'[p].data
            IN  /\ llamadas[p].pc # "hecho"
                /\ llamadas'[p].pc = "hecho"
                /\ \/ /\ resultado'.entidad = "Vehiculo"
                      /\ resultado'.id = data.vehiculoId.valor
                      /\ resultado'.id \notin DOMAIN vehiculo
                   \/ /\ resultado'.entidad = "Cliente"
                      /\ resultado'.id = data.clienteId.valor
                      /\ resultado'.id \notin DOMAIN cliente
                   \/ /\ resultado'.entidad = "Trabajador"
                      /\ resultado'.id = data.trabajadorId.valor
                      /\ resultado'.id \notin DOMAIN trabajador
C11_EntidadInexistente == [][C11_Paso]_vars

\* A create for a client without row has failed naming the client and the
\* identifier given, while its vehicle exists.
C11_Testigo ==
  /\ resultado.op = OpCrear
  /\ resultado.error = "NotFoundError"
  /\ resultado.entidad = "Cliente"
  /\ resultado.id \notin DOMAIN cliente
  /\ \E p \in Procesos :
       /\ llamadas[p].pc = "hecho"
       /\ llamadas[p].data.clienteId.valor = resultado.id
       /\ llamadas[p].data.vehiculoId.valor \in DOMAIN vehiculo

OpsEliminar ==
  {"eliminarCliente", "eliminarVehiculo", "eliminarTrabajador",
   "eliminarServicioRecogida"}

\* The identifiers of the rows of the table a delete operation works on.
FilasDe(op, c, v, t, s) ==
  CASE op = "eliminarCliente" -> DOMAIN c
    [] op = "eliminarVehiculo" -> DOMAIN v
    [] op = "eliminarTrabajador" -> DOMAIN t
    [] op = "eliminarServicioRecogida" -> DOMAIN s

\* The one outcome of a delete of an identifier without row.
SoloFallo(op) ==
  /\ resultado' = PersistenceError(op)
  /\ UNCHANGED <<tablas, siguienteId>>

\* C12: a delete of an identifier without row has one outcome on every call:
\* it fails, with the same error, and leaves the store as it was. A delete
\* succeeds only on a row that exists and leaves the identifier without row,
\* and an identifier without row never gets one again, so a delete of the
\* same identifier succeeds at most once and fails alike afterwards.
C12_Comprobacion ==
  Enviada /\ HayTurno =>
    /\ \A id \in IdsServicioRecogida \ DOMAIN servicioRecogida :
         ~ENABLED ( /\ EliminarServicioRecogida(id)
                    /\ ~SoloFallo("eliminarServicioRecogida") )
    /\ \A id \in IdsCliente \ DOMAIN cliente :
         ~ENABLED (EliminarCliente(id) /\ ~SoloFallo("eliminarCliente"))
    /\ \A id \in IdsVehiculo \ DOMAIN vehiculo :
         ~ENABLED (EliminarVehiculo(id) /\ ~SoloFallo("eliminarVehiculo"))
    /\ \A id \in IdsTrabajador \ DOMAIN trabajador :
         ~ENABLED (EliminarTrabajador(id) /\ ~SoloFallo("eliminarTrabajador"))
C12_Paso ==
  /\ resultado'.op \in OpsEliminar =>
       IF resultado'.error = Ninguno
       THEN /\ resultado'.id
                 \in FilasDe(resultado'.op, cliente, vehiculo, trabajador,
                             servicioRecogida)
            /\ FilasDe(resultado'.op, cliente', vehiculo', trabajador',
                       servicioRecogida')
                 = FilasDe(resultado'.op, cliente, vehiculo, trabajador,
                           servicioRecogida) \ {resultado'.id}
            /\ UNCHANGED siguienteId
       ELSE SoloFallo(resultado'.op)
  /\ \A id \in 1..(siguienteId.servicioRecogida - 1) :
       id \notin DOMAIN servicioRecogida => id \notin DOMAIN servicioRecogida'
  /\ \A id \in 1..(siguienteId.cliente - 1) :
       id \notin DOMAIN cliente => id \notin DOMAIN cliente'
  /\ \A id \in 1..(siguienteId.vehiculo - 1) :
       id \notin DOMAIN vehiculo => id \notin DOMAIN vehiculo'
  /\ \A id \in 1..(siguienteId.trabajador - 1) :
       id \notin DOMAIN trabajador => id \notin DOMAIN trabajador'
C12_EliminarInexistente == []C12_Comprobacion /\ [][C12_Paso]_vars

\* The record of the store was deleted, and a later delete of a record has
\* failed: no record exists, so the identifier it named has no row.
C12_Testigo ==
  /\ resultado = PersistenceError("eliminarServicioRecogida")
  /\ peticiones = 2
  /\ siguienteId.servicioRecogida > 1
  /\ servicioRecogida = << >>

\* C13: create and update have no concurrency control. A call that has
\* passed its checks holds a volume validated against the capacity it read;
\* while the rows it refers to exist its write can go through, whatever the
\* capacity of the vehicle is by then, and the step that ends the call either
\* writes that volume on that vehicle or reports the failure of the store.
\* (The race itself is C13_Testigo.)
C13_Comprobacion ==
  \A p \in Procesos :
    llamadas[p].pc = "escribir" =>
      LET ll == llamadas[p]
          volumen == Efectivo(ll.data.volumen_recogido_m3,
                              ll.servicioExistente.volumen_recogido_m3)
          vehiculoId == Efectivo(ll.data.vehiculoId, ll.servicioExistente.vehiculoId)
          vivas ==
            /\ vehiculoId \in DOMAIN vehiculo
            /\ Efectivo(ll.data.clienteId, ll.servicioExistente.clienteId)
                 \in DOMAIN cliente
            /\ Efectivo(ll.data.trabajadorId, ll.servicioExistente.trabajadorId)
                 \in DOMAIN trabajador
      IN  IF ll.op = OpActualizar
          THEN vivas /\ ll.id \in DOMAIN servicioRecogida =>
                 ENABLED ( /\ Escribir(p)
                           /\ resultado' = Exito(OpActualizar, ll.id)
                           /\ servicioRecogida'[ll.id].volumen_recogido_m3 = volumen
                           /\ servicioRecogida'[ll.id].vehiculoId = vehiculoId )
          ELSE vivas =>
                 ENABLED ( /\ CrearEscribir(p)
                           /\ resultado'.error = Ninguno
                           /\ servicioRecogida'[resultado'.id].volumen_recogido_m3
                                = volumen
                           /\ servicioRecogida'[resultado'.id].vehiculoId = vehiculoId )
C13_Paso ==
  \A p \in Procesos :
    llamadas[p].pc = "escribir" /\ llamadas'[p].pc = "hecho" =>
      LET ll == llamadas[p]
          volumen == Efectivo(ll.data.volumen_recogido_m3,
                              ll.servicioExistente.volumen_recogido_m3)
          vehiculoId == Efectivo(ll.data.vehiculoId, ll.servicioExistente.vehiculoId)
      IN  \/ /\ resultado' = PersistenceError(ll.op)
             /\ UNCHANGED <<tablas, siguienteId>>
          \/ /\ resultado' = Exito(ll.op, resultado'.id)
             /\ ll.op = OpActualizar => resultado'.id = ll.id
             /\ servicioRecogida'[resultado'.id].volumen_recogido_m3 = volumen
             /\ servicioRecogida'[resultado'.id].vehiculoId = vehiculoId
C13_SinControlDeConcurrencia == []C13_Comprobacion /\ [][C13_Paso]_vars

\* The race: an update has just written a record whose volume exceeds the
\* capacity of the vehicle it references, although the record it read was
\* within it: the capacity was lowered between its lookup of the vehicle and
\* its write.
C13_Testigo ==
  /\ resultado.op = OpActualizar
  /\ resultado.error = Ninguno
  /\ \E p \in Procesos :
       LET ll == llamadas[p]
           fila == servicioRecogida[ll.id]
       IN  /\ ll.pc = "hecho"
           /\ ll.op = OpActualizar
           /\ ll.id = resultado.id
           /\ fila.volumen_recogido_m3 =
                Efectivo(ll.data.volumen_recogido_m3,
                         ll.servicioExistente.volumen_recogido_m3)
           /\ fila.volumen_recogido_m3 > vehiculo[fila.vehiculoId].capacidad_max_m3

OpsEntidad ==
  {"crearCliente", "actualizarCliente", "crearVehiculo", "actualizarVehiculo",
   "crearTrabajador", "actualizarTrabajador"}

\* The one outcome of a call given a non-positive value: the validation
\* error, with nothing written.
SoloRechazo(op, campo) ==
  /\ resultado' = ValidationError(op, campo)
  /\ UNCHANGED <<tablas, siguienteId>>

\* C14: every persisted client has rate > 0, every vehicle capacity > 0 and
\* consumption > 0, every worker salary > 0; a create or update of one of them
\* that gives a non-positive value for such a field can only fail with the
\* validation error, and a call that ends so has written nothing.
C14_Positivos ==
  /\ \A c \in DOMAIN cliente : cliente[c] > 0
  /\ \A v \in DOMAIN vehiculo :
       /\ vehiculo[v].capacidad_max_m3 > 0
       /\ vehiculo[v].consumo_combustible_litros > 0
  /\ \A t \in DOMAIN trabajador : trabajador[t] > 0
C14_Comprobacion ==
  Enviada /\ HayTurno =>
    /\ \A x \in {t \in TarifasEntrada : t <= 0} :
         /\ ~ENABLED (CrearCliente(x) /\ ~SoloRechazo("crearCliente", "tarifa_por_m3"))
         /\ \A id \in IdsCliente :
              ~ENABLED ( /\ ActualizarCliente(id, Dado(x))
                         /\ ~SoloRechazo("actualizarCliente", "tarifa_por_m3") )
    /\ \A x \in {s \in SalariosEntrada : s <= 0} :
         /\ ~ENABLED (CrearTrabajador(x) /\ ~SoloRechazo("crearTrabajador", "salario_base"))
         /\ \A id \in IdsTrabajador :
              ~ENABLED ( /\ ActualizarTrabajador(id, Dado(x))
                         /\ ~SoloRechazo("actualizarTrabajador", "salario_base") )
    /\ \A m \in Matriculas, c \in CapacidadesEntrada, k \in ConsumosEntrada :
         c <= 0 \/ k <= 0 =>
           ~ENABLED ( /\ CrearVehiculo(m, c, k)
                      /\ ~SoloRechazo("crearVehiculo", "capacidad_max_m3")
                      /\ ~SoloRechazo("crearVehiculo", "consumo_combustible_litros") )
    /\ \A id \in IdsVehiculo, m \in Opcional(Matriculas),
          c \in Opcional(CapacidadesEntrada), k \in Opcional(ConsumosEntrada) :
         (c.definido /\ c.valor <= 0) \/ (k.definido /\ k.valor <= 0) =>
           ~ENABLED ( /\ ActualizarVehiculo(id, m, c, k)
                      /\ ~SoloRechazo("actualizarVehiculo", "capacidad_max_m3")
                      /\ ~SoloRechazo("actualizarVehiculo", "consumo_combustible_litros") )
C14_Paso ==
  resultado'.op \in OpsEntidad /\ resultado'.error = "ValidationError"
    => UNCHANGED <<tablas, siguienteId>>
C14_ValoresPositivos ==
  /\ [](C14_Positivos /\ C14_Comprobacion)
  /\ [][C14_Paso]_vars

\* An update of an existing vehicle that gave a non-positive consumption has
\* been rejected.
C14_Testigo ==
  /\ resultado = ValidationError("actualizarVehiculo", "consumo_combustible_litros")
  /\ vehiculo # << >>

\* C15: the response to a create or update of a ServiceRecord follows the
\* kind of the failure: 400 for a ValidationError, 404 for a NotFoundError,
\* 500 for a PersistenceError.
C15_EstadoSegunError ==
  resultado.op \in {OpCrear, OpActualizar} =>
    /\ resultado.error = "ValidationError" => StatusCode(resultado) = 400
    /\ resultado.error = "NotFoundError" => StatusCode(resultado) = 404
    /\ resultado.error = "PersistenceError" => StatusCode(resultado) = 500

\* C16: after an update that succeeds, every field among client, vehicle,
\* worker and volume that was not given has the value the call read from the
\* record, the date not given is the one the record had, and every field
\* given has the value given; only the cost may differ besides. The other
\* records are not touched.
C16_Paso ==
  /\ \A p \in Procesos :
       ( /\ Empieza(p)
         /\ llamadas'[p].op = OpActualizar
         /\ llamadas'[p].pc # "hecho" ) =>
         /\ llamadas'[p].id \in DOMAIN servicioRecogida
         /\ \A campo \in {"clienteId", "vehiculoId", "trabajadorId",
                          "volumen_recogido_m3"} :
              llamadas'[p].servicioExistente[campo] =
                servicioRecogida[llamadas'[p].id][campo]
  /\ resultado'.op = OpActualizar /\ resultado'.error = Ninguno =>
       \E p \in Procesos :
         LET ll == llamadas[p]
         IN  /\ Escribe(p, OpActualizar)
             /\ ll.id = resultado'.id
             /\ ll.id \in DOMAIN servicioRecogida
             /\ DOMAIN servicioRecogida' = DOMAIN servicioRecogida
             /\ \A s \in DOMAIN servicioRecogida \ {ll.id} :
                  servicioRecogida'[s] = servicioRecogida[s]
             /\ \A campo \in {"clienteId", "vehiculoId", "trabajadorId",
                              "volumen_recogido_m3"} :
                  servicioRecogida'[ll.id][campo] =
                    Efectivo(ll.data[campo], ll.servicioExistente[campo])
             /\ servicioRecogida'[ll.id].fecha =
                  Efectivo(ll.data.fecha, servicioRecogida[ll.id].fecha)
C16_CamposNoDadosIntactos == [][C16_Paso]_vars

\* An update that gave the volume alone has succeeded: the record has the
\* volume given, and the client, vehicle, worker and date it had.
C16_Testigo ==
  /\ resultado.op = OpActualizar
  /\ resultado.error = Ninguno
  /\ \E p \in Procesos :
       LET ll == llamadas[p]
           fila == servicioRecogida[ll.id]
       IN  /\ ll.pc = "hecho"
           /\ ll.op = OpActualizar
           /\ ll.id = resultado.id
           /\ ll.data.volumen_recogido_m3.definido
           /\ CamposDados(ll.data) = 1
           /\ fila.volumen_recogido_m3 = ll.data.volumen_recogido_m3.valor
           /\ fila.volumen_recogido_m3 # ll.servicioExistente.volumen_recogido_m3
           /\ fila.clienteId = ll.servicioExistente.clienteId
           /\ fila.vehiculoId = ll.servicioExistente.vehiculoId
           /\ fila.trabajadorId = ll.servicioExistente.trabajadorId
           /\ fila.fecha = ll.servicioExistente.fecha

\* The merged tuple of an update in progress: what it was given, over what it
\* read.
Mezcla(ll) ==
  [campo \in {"clienteId", "vehiculoId", "trabajadorId", "volumen_recogido_m3"} |->
     Efectivo(ll.data[campo], ll.servicioExistente[campo])]

\* C17: when updates of the same record interleave while no vehicle and no
\* client is modified, every record keeps volume <= the capacity of its
\* vehicle and cost = round_half_up(volume x the rate of its client, 2), and
\* each write leaves the record with the full merged tuple of the call that
\* writes: the fields it was given over the values it read at its start,
\* whatever another call has written since. The record is therefore the
\* tuple of the call that wrote last, and a field given only by an earlier
\* writer goes back to the value the later writer read.
C17_Coherencia ==
  \A s \in DOMAIN servicioRecogida :
    /\ servicioRecogida[s].vehiculoId \in DOMAIN vehiculo
    /\ servicioRecogida[s].clienteId \in DOMAIN cliente
    /\ servicioRecogida[s].volumen_recogido_m3
         <= vehiculo[servicioRecogida[s].vehiculoId].capacidad_max_m3
    /\ servicioRecogida[s].costo_servicio =
         CostoEsperado(servicioRecogida[s].volumen_recogido_m3,
                       cliente[servicioRecogida[s].clienteId])
C17_Paso ==
  /\ UNCHANGED <<cliente, vehiculo, trabajador>>
  /\ \/ UNCHANGED servicioRecogida
     \/ \E p \in Procesos :
          LET ll == llamadas[p]
          IN  /\ Escribe(p, OpActualizar)
              /\ resultado' = Exito(OpActualizar, ll.id)
              /\ DOMAIN servicioRecogida' = DOMAIN servicioRecogida
              /\ \A s \in DOMAIN servicioRecogida \ {ll.id} :
                   servicioRecogida'[s] = servicioRecogida[s]
              /\ \A campo \in DOMAIN Mezcla(ll) :
                   servicioRecogida'[ll.id][campo] = Mezcla(ll)[campo]
              /\ servicioRecogida'[ll.id].costo_servicio =
                   CostoEsperado(Mezcla(ll).volumen_recogido_m3,
                                 cliente[Mezcla(ll).clienteId])
C17_UltimaEscrituraGana == []C17_Coherencia /\ [][C17_Paso]_vars

\* Two updates of the same record are interleaved: one has just written a
\* field that the other was not given, and the other, which read the record
\* before that write, is at its own write with the old value of the field.
C17_Testigo ==
  /\ resultado.op = OpActualizar
  /\ resultado.error = Ninguno
  /\ \E p \in Procesos, q \in Procesos :
       /\ p # q
       /\ llamadas[q].pc = "hecho"
       /\ llamadas[q].id = resultado.id
       /\ llamadas[p].pc = "escribir"
       /\ llamadas[p].id = resultado.id
       /\ \E campo \in DOMAIN Mezcla(llamadas[p]) :
            /\ llamadas[q].data[campo].definido
            /\ ~llamadas[p].data[campo].definido
            /\ servicioRecogida[resultado.id][campo] = llamadas[q].data[campo].valor
            /\ servicioRecogida[resultado.id][campo]
                 # llamadas[p].servicioExistente[campo]

====
